---- MODULE Spec2Model ----
(***************************************************************************)
(* WebSocketChatTransport (packages/ai-chat/src/ws-chat-transport.ts):     *)
(* request streams created by sendMessages, the resume handshake           *)
(* (reconnectToStream / handleStreamResuming / _createResumeStream), the   *)
(* shared activeRequestIds set and the frames written to and read from     *)
(* the agent connection.                                                   *)
(***************************************************************************)
EXTENDS Integers, Sequences, FiniteSets, TLC

\* ---------------------------------------------------------------- bounds
MaxCalls == 2        \* sendMessages and reconnectToStream calls over a run
MaxChunks == 2       \* chunks the response frames of a run carry to streams
NumAgents == 2       \* connection handles the transport's agent field takes
MaxId == 2           \* distinct request identifiers
MaxMessages == 4     \* messages in a list handed to persistMessages
MaxPersists == 2     \* persistMessages calls over a run

Agents == 1..NumAgents
Ids == 1..MaxId

\* ------------------------------------------------------- frame vocabulary
\* MessageType members used by the transport.
CF_AGENT_USE_CHAT_REQUEST == "cf_agent_use_chat_request"
CF_AGENT_USE_CHAT_RESPONSE == "cf_agent_use_chat_response"
CF_AGENT_CHAT_REQUEST_CANCEL == "cf_agent_chat_request_cancel"
CF_AGENT_STREAM_RESUME_REQUEST == "cf_agent_stream_resume_request"
CF_AGENT_STREAM_RESUME_ACK == "cf_agent_stream_resume_ack"
CF_AGENT_STREAM_RESUMING == "cf_agent_stream_resuming"

Triggers == {"submit-message", "regenerate-message"}

\* Bodies a response frame may carry: empty, whitespace only, text that is
\* not JSON, and two JSON texts.
Bodies == {"", " ", "{", "1", "2"}

\* String.prototype.trim on the body alphabet.
trim(b) == IF b = " " THEN "" ELSE b

\* JavaScript truthiness of a string.
truthy(b) == b # ""

\* JSON.parse of a chunk body: throws on "{", "" and " ", yields the value
\* otherwise.
jsonParses(b) == b \in {"1", "2"}
jsonParse(b) == IF b = "1" THEN 1 ELSE 2

\* event.data of an inbound message event.  raw = "text" is data that
\* JSON.parse rejects.  The server replays chunk "1" and sends chunk "2"
\* live; error frames carry an empty body or a message, here one that is
\* itself JSON text.
ResponseFrames ==
  { f \in [raw : {"json"}, type : {CF_AGENT_USE_CHAT_RESPONSE}, id : Ids,
           body : Bodies, done : BOOLEAN, error : BOOLEAN, replay : BOOLEAN] :
      /\ f.replay <=> (f.body = "1")
      /\ f.error => (f.body \in {"", "2"} /\ ~f.done) }

OtherFrames ==
  { [raw |-> "text", type |-> "", id |-> 0, body |-> "", done |-> FALSE,
     error |-> FALSE, replay |-> FALSE],
    [raw |-> "json", type |-> CF_AGENT_STREAM_RESUMING, id |-> 1, body |-> "",
     done |-> FALSE, error |-> FALSE, replay |-> FALSE] }

InboundFrames == ResponseFrames \cup OtherFrames

\* The frames that carry no chunk: end-of-stream and error frames with an
\* empty body or a message, and the frames that are no response at all.
ControlFrames ==
  { f \in ResponseFrames : f.body = "" \/ f.error }
    \cup OtherFrames

\* ------------------------------------------------------------- errors
NoError == [name |-> "", message |-> ""]
abortError == [name |-> "AbortError", message |-> "Aborted"]
\* The error built from the body alone.
streamError_noFallback(body) == [name |-> "Error", message |-> body]

\* new Error(data.body || "Stream error")
streamError(body) ==
  [name |-> "Error", message |-> IF truthy(body) THEN body ELSE "Stream error"]

VARIABLES
  agent,              \* this.agent: the connection handle currently installed
  sent,               \* per connection, the frames send() accepted, in order
  activeRequestIds,   \* the shared Set<string> given to the constructor
  streams,            \* every ReadableStream built so far, in creation order
  resumes,            \* every reconnectToStream call so far, in call order
  resumeResolver,     \* this._resumeResolver: 0 = null, r = closure of call r
  lastOp,             \* the operation that ran last and what it returned
  store,              \* the chat agent's persisted message rows, in order
  lastPersist         \* the persistMessages call that ran last

vars == <<agent, sent, activeRequestIds, streams, resumes, resumeResolver, lastOp,
          store, lastPersist>>

\* The state of the chat agent's message store, which no operation of the
\* transport touches.
persistVars == <<store, lastPersist>>

\* ----------------------------------------------------- ReadableStream
\* A stream and the closure state of the function that created it.
newStream(kind, id, ag, sig) ==
  [kind |-> kind,               \* "send" or "resume"
   id |-> id,                   \* requestId
   agent |-> ag,                \* const agent = this.agent
   completed |-> FALSE,         \* let completed = false
   listening |-> TRUE,          \* onMessage attached, controller not aborted
   signal |-> sig,              \* options.abortSignal: "none", "armed", "aborted"
   trigger |-> "",              \* options.trigger of a send call
   state |-> "readable",        \* stream state
   closeRequested |-> FALSE,    \* close() called while chunks were queued
   queue |-> <<>>,              \* chunks enqueued and not yet read
   storedError |-> NoError,     \* error the stream was errored with
   returned |-> FALSE,          \* a caller holds the stream
   seen |-> <<>>,               \* chunks the consumer has read
   expected |-> <<>>,           \* chunks carried by the frames routed to it
   wireEnd |-> "",              \* how the routed frames ended: "done", "error"
   errorBody |-> "",            \* body of the error frame that ended them
   cancelAsked |-> FALSE,       \* abort signal fired or consumer cancelled
   actionRuns |-> 0,            \* times finish ran its action
   terminals |-> 0]             \* times the stream left "readable"

\* controller.enqueue(chunk): throws when the stream is closing or not
\* readable; its only caller swallows the exception.
controllerEnqueue(st, chunk) ==
  IF st.state = "readable" /\ ~st.closeRequested
  THEN [st EXCEPT !.queue = Append(@, chunk)]
  ELSE st

\* controller.close(): throws when closing or not readable (swallowed by
\* finish); closes at once when nothing is queued, else after the last read.
controllerClose(st) ==
  IF st.state = "readable" /\ ~st.closeRequested
  THEN IF st.queue = <<>>
       THEN [st EXCEPT !.closeRequested = TRUE, !.state = "closed",
                       !.terminals = @ + 1]
       ELSE [st EXCEPT !.closeRequested = TRUE]
  ELSE st

\* controller.error(e): no-op unless readable; drops the queued chunks.
controllerError(st, e) ==
  IF st.state = "readable"
  THEN [st EXCEPT !.state = "errored", !.storedError = e, !.queue = <<>>,
                  !.terminals = @ + 1]
  ELSE st

\* The action handed to finish.
runAction(st, action) ==
  IF action.kind = "close" THEN controllerClose(st)
  ELSE IF action.kind = "error" THEN controllerError(st, action.error)
  ELSE st

closeAction == [kind |-> "close", error |-> NoError]
errorAction(e) == [kind |-> "error", error |-> e]
noAction == [kind |-> "none", error |-> NoError]

\* sendMessages: const finish = (action) => { ... }.  w is the pair of the
\* stream and the active set the closure reaches.
sendFinish(w, action) ==
  IF w.st.completed THEN w
  ELSE [st |-> [runAction([w.st EXCEPT !.completed = TRUE], action)
                  EXCEPT !.actionRuns = @ + 1, !.listening = FALSE],
        active |-> w.active \ {w.st.id}]

\* finish without its completed guard: the action runs on every call.
resumeFinish_unguarded(w, action) ==
  [st |-> [runAction([w.st EXCEPT !.completed = TRUE], action)
             EXCEPT !.actionRuns = @ + 1, !.listening = FALSE],
   active |-> w.active \ {w.st.id}]

\* _createResumeStream: const finish = (action) => { ... }.
resumeFinish(w, action) ==
  IF w.st.completed THEN w
  ELSE [st |-> [runAction([w.st EXCEPT !.completed = TRUE], action)
                  EXCEPT !.actionRuns = @ + 1, !.listening = FALSE],
        active |-> w.active \ {w.st.id}]

\* onMessage without the identifier test.
sendOnMessage_anyId(w, data) ==
  IF data.raw # "json" THEN w
  ELSE IF data.type # CF_AGENT_USE_CHAT_RESPONSE THEN w
  ELSE IF data.error THEN sendFinish(w, errorAction(streamError(data.body)))
  ELSE LET w1 == IF truthy(trim(data.body)) /\ jsonParses(data.body)
                 THEN [w EXCEPT !.st = controllerEnqueue(@, jsonParse(data.body))]
                 ELSE w
       IN IF data.done THEN sendFinish(w1, closeAction) ELSE w1

\* onMessage that looks at the done flag only of frames that gave a chunk.
sendOnMessage_chunklessIgnored(w, data) ==
  IF data.raw # "json" THEN w
  ELSE IF data.type # CF_AGENT_USE_CHAT_RESPONSE THEN w
  ELSE IF data.id # w.st.id THEN w
  ELSE IF data.error THEN sendFinish(w, errorAction(streamError(data.body)))
  ELSE IF truthy(trim(data.body)) /\ jsonParses(data.body)
  THEN LET w1 == [w EXCEPT !.st = controllerEnqueue(@, jsonParse(data.body))]
       IN IF data.done THEN sendFinish(w1, closeAction) ELSE w1
  ELSE w

\* sendMessages: const onMessage = (event) => { ... }.
sendOnMessage(w, data) ==
  IF data.raw # "json" THEN w
  ELSE IF data.type # CF_AGENT_USE_CHAT_RESPONSE THEN w
  ELSE IF data.id # w.st.id THEN w
  ELSE IF data.error THEN sendFinish(w, errorAction(streamError(data.body)))
  ELSE LET w1 == IF truthy(trim(data.body)) /\ jsonParses(data.body)
                 THEN [w EXCEPT !.st = controllerEnqueue(@, jsonParse(data.body))]
                 ELSE w
       IN IF data.done THEN sendFinish(w1, closeAction) ELSE w1

\* onMessage that leaves replayed frames to another handler.
resumeOnMessage_skipsReplay(w, data) ==
  IF data.raw # "json" THEN w
  ELSE IF data.type # CF_AGENT_USE_CHAT_RESPONSE THEN w
  ELSE IF data.id # w.st.id THEN w
  ELSE IF data.replay THEN w
  ELSE IF data.error THEN resumeFinish(w, errorAction(streamError(data.body)))
  ELSE LET w1 == IF truthy(trim(data.body)) /\ jsonParses(data.body)
                 THEN [w EXCEPT !.st = controllerEnqueue(@, jsonParse(data.body))]
                 ELSE w
       IN IF data.done THEN resumeFinish(w1, closeAction) ELSE w1

\* onMessage that lets the failure of JSON.parse end the stream.
resumeOnMessage_fatalParse(w, data) ==
  IF data.raw # "json" THEN resumeFinish(w, errorAction(streamError("")))
  ELSE IF data.type # CF_AGENT_USE_CHAT_RESPONSE THEN w
  ELSE IF data.id # w.st.id THEN w
  ELSE IF data.error THEN resumeFinish(w, errorAction(streamError(data.body)))
  ELSE LET w1 == IF truthy(trim(data.body)) /\ jsonParses(data.body)
                 THEN [w EXCEPT !.st = controllerEnqueue(@, jsonParse(data.body))]
                 ELSE w
       IN IF data.done THEN resumeFinish(w1, closeAction) ELSE w1

\* _createResumeStream: const onMessage = (event) => { ... }.
resumeOnMessage(w, data) ==
  IF data.raw # "json" THEN w
  ELSE IF data.type # CF_AGENT_USE_CHAT_RESPONSE THEN w
  ELSE IF data.id # w.st.id THEN w
  ELSE IF data.error THEN resumeFinish(w, errorAction(streamError(data.body)))
  ELSE LET w1 == IF truthy(trim(data.body)) /\ jsonParses(data.body)
                 THEN [w EXCEPT !.st = controllerEnqueue(@, jsonParse(data.body))]
                 ELSE w
       IN IF data.done THEN resumeFinish(w1, closeAction) ELSE w1

\* onAbort without its completed test.
onAbort_unguarded(x, sendThrows) ==
  LET f == sendFinish([st |-> x.st, active |-> x.active],
                      errorAction(abortError))
  IN [st |-> f.st, active |-> f.active,
      sent |-> IF sendThrows THEN x.sent
               ELSE [x.sent EXCEPT ![x.st.agent] =
                       Append(@, [type |-> CF_AGENT_CHAT_REQUEST_CANCEL,
                                  id |-> x.st.id])]]

\* sendMessages: const onAbort = () => { ... }.  x adds the connections'
\* outboxes to the pair; sendThrows: agent.send throws during this call.
onAbort(x, sendThrows) ==
  IF x.st.completed THEN x
  ELSE LET f == sendFinish([st |-> x.st, active |-> x.active],
                           errorAction(abortError))
       IN [st |-> f.st, active |-> f.active,
           sent |-> IF sendThrows THEN x.sent
                    ELSE [x.sent EXCEPT ![x.st.agent] =
                            Append(@, [type |-> CF_AGENT_CHAT_REQUEST_CANCEL,
                                       id |-> x.st.id])]]

\* lastOp after an operation no property needs to tell from a step that
\* did nothing.  A hand-off leaves its return value in lastOp, the delivery
\* of a response frame the identifier the frame names, the delivery of data
\* that is no JSON the word "unparseable".
NoOp == [op |-> "", ret |-> ""]

\* lastPersist before any persistMessages call.
NoPersist == [n |-> 0, server |-> <<>>, client |-> <<>>, final |-> <<>>,
              deleted |-> {}]

\* --------------------------------------------------------------- Init
Init ==
  /\ agent = 1
  /\ sent = [a \in Agents |-> <<>>]
  /\ activeRequestIds = {}
  /\ streams = <<>>
  /\ resumes = <<>>
  /\ resumeResolver = 0
  /\ lastOp = NoOp
  /\ store = <<>>
  /\ lastPersist = NoPersist

\* ------------------------------------------------------- sendMessages
\* Fields prepareBody and options.body contribute to the request body;
\* spread after messages and trigger, a key of theirs with one of these
\* names replaces the caller's value.
NoExtraBody == [hasTrigger |-> FALSE, trigger |-> "", hasMessages |-> FALSE]
ExtraBodies ==
  {[hasTrigger |-> t, trigger |-> IF t THEN "custom" ELSE "", hasMessages |-> m] :
     t \in BOOLEAN, m \in BOOLEAN}

\* JSON.stringify({messages, trigger, ...extraBody}), as the trigger it
\* holds and whose messages it holds: those of the options or those of the
\* extra fields.
bodyPayload(trigger, extraBody) ==
  [trigger |-> IF extraBody.hasTrigger THEN extraBody.trigger ELSE trigger,
   messages |-> IF extraBody.hasMessages THEN "extraBody" ELSE "options"]

\* nanoid(8): an identifier no stream of this transport holds or held.
usedIds == {streams[i].id : i \in DOMAIN streams} \cup activeRequestIds
nanoid == CHOOSE id \in Ids : id \notin usedIds /\ \A j \in Ids \ usedIds : id <= j

\* Calls made so far.
calls == Cardinality({i \in DOMAIN streams : streams[i].kind = "send"})
           + Len(resumes)

\* sendMessages that catches the failure of its SEND_REQUEST and returns
\* the stream all the same.
sendMessages_swallows(requestId, trigger, sig, extraBody, sendThrows) ==
  /\ calls < MaxCalls
  /\ Ids \ usedIds # {}
  /\ requestId = nanoid
  /\ LET st0 == [newStream("send", requestId, agent, sig)
                   EXCEPT !.cancelAsked = (sig = "aborted"),
                          !.trigger = trigger]
         x0 == [st |-> st0, active |-> activeRequestIds \cup {requestId},
                sent |-> sent]
         x1 == IF sig = "aborted" THEN onAbort(x0, sendThrows) ELSE x0
         request == [type |-> CF_AGENT_USE_CHAT_REQUEST, id |-> requestId,
                     body |-> bodyPayload(trigger, extraBody)]
     IN /\ activeRequestIds' = x1.active
        /\ sent' = IF sendThrows THEN x1.sent
                   ELSE [x1.sent EXCEPT ![agent] = Append(@, request)]
        /\ streams' = Append(streams, [x1.st EXCEPT !.returned = TRUE])
        /\ lastOp' = NoOp
  /\ UNCHANGED <<persistVars, agent, resumes, resumeResolver>>

\* sendMessages(options) from the point where prepareBody has settled: the
\* stream is built and wired, then SEND_REQUEST is sent outside any
\* try/catch; when send throws the call rejects and no caller gets the
\* stream.
sendMessages(requestId, trigger, sig, extraBody, sendThrows) ==
  /\ calls < MaxCalls
  /\ Ids \ usedIds # {}
  /\ requestId = nanoid
  /\ LET st0 == [newStream("send", requestId, agent, sig)
                   EXCEPT !.cancelAsked = (sig = "aborted"),
                          !.trigger = trigger]
         x0 == [st |-> st0, active |-> activeRequestIds \cup {requestId},
                sent |-> sent]
         x1 == IF sig = "aborted" THEN onAbort(x0, sendThrows) ELSE x0
         request == [type |-> CF_AGENT_USE_CHAT_REQUEST, id |-> requestId,
                     body |-> bodyPayload(trigger, extraBody)]
     IN /\ activeRequestIds' = x1.active
        /\ IF sendThrows
           THEN /\ sent' = x1.sent
                /\ streams' = Append(streams, x1.st)
                /\ lastOp' = NoOp
           ELSE /\ sent' = [x1.sent EXCEPT ![agent] = Append(@, request)]
                /\ streams' = Append(streams, [x1.st EXCEPT !.returned = TRUE])
                /\ lastOp' = NoOp
  /\ UNCHANGED <<persistVars, agent, resumes, resumeResolver>>

\* options.abortSignal fires its abort event: the listener registered by
\* sendMessages runs onAbort.
abortSignalFires(s, sendThrows) ==
  /\ s \in DOMAIN streams
  /\ streams[s].kind = "send"
  /\ streams[s].signal = "armed"
  /\ LET st0 == [streams[s] EXCEPT !.signal = "aborted", !.cancelAsked = TRUE]
         x1 == onAbort([st |-> st0, active |-> activeRequestIds, sent |-> sent],
                       sendThrows)
     IN /\ streams' = [streams EXCEPT ![s] = x1.st]
        /\ activeRequestIds' = x1.active
        /\ sent' = x1.sent
  /\ lastOp' = NoOp
  /\ UNCHANGED <<persistVars, agent, resumes, resumeResolver>>

\* ------------------------------------------------- inbound dispatch
\* The frames routed to a stream end with the first done or error frame.
wireEnded(st) == st.wireEnd # ""

routed(st, a, data) ==
  /\ st.agent = a
  /\ data.raw = "json"
  /\ data.type = CF_AGENT_USE_CHAT_RESPONSE
  /\ data.id = st.id

\* The chunk a response frame carries, if any: its body parsed.
carriesChunk(data) == ~data.error /\ trim(data.body) # "" /\ jsonParses(data.body)

\* Record a frame put on connection a in the history of stream st.
logFrame(st, a, data) ==
  IF routed(st, a, data) /\ ~wireEnded(st) /\ ~st.cancelAsked
  THEN [st EXCEPT !.expected = IF carriesChunk(data)
                               THEN Append(@, jsonParse(data.body)) ELSE @,
                  !.wireEnd = IF data.error THEN "error"
                              ELSE IF data.done THEN "done" ELSE "",
                  !.errorBody = IF data.error THEN data.body ELSE @]
  ELSE st

\* The listeners attached to connection a run in the order they were added.
RECURSIVE runListeners(_, _, _, _, _)
runListeners(ss, active, a, data, i) ==
  IF i > Len(ss) THEN [streams |-> ss, active |-> active]
  ELSE IF ss[i].listening /\ ss[i].agent = a
       THEN LET w0 == [st |-> ss[i], active |-> active]
                w1 == IF ss[i].kind = "send" THEN sendOnMessage(w0, data)
                      ELSE resumeOnMessage(w0, data)
            IN runListeners([ss EXCEPT ![i] = w1.st], w1.active, a, data, i + 1)
       ELSE runListeners(ss, active, a, data, i + 1)

\* Chunks carried to streams so far.
RECURSIVE sumExpected(_)
sumExpected(i) ==
  IF i = 0 THEN 0 ELSE Len(streams[i].expected) + sumExpected(i - 1)
chunksCarried == sumExpected(Len(streams))

\* A message event on connection a.
dispatch(a, data) ==
  /\ carriesChunk(data) =>
       chunksCarried + Cardinality({i \in DOMAIN streams :
           routed(streams[i], a, data) /\ ~wireEnded(streams[i])
             /\ ~streams[i].cancelAsked}) <= MaxChunks
  /\ LET logged == [i \in DOMAIN streams |-> logFrame(streams[i], a, data)]
         r == runListeners(logged, activeRequestIds, a, data, 1)
     IN /\ streams' = r.streams
        /\ activeRequestIds' = r.active
  /\ lastOp' = IF data.raw # "json"
               THEN [op |-> "dispatch", ret |-> "unparseable"]
               ELSE IF data.type = CF_AGENT_USE_CHAT_RESPONSE
               THEN [op |-> "dispatch", ret |-> ToString(data.id)]
               ELSE NoOp
  /\ UNCHANGED <<persistVars, agent, sent, resumes, resumeResolver>>

\* ------------------------------------------------------- the consumer
\* reader.read() that yields a queued chunk; the last chunk of a stream
\* whose close was requested closes it.
consumerRead(s) ==
  /\ s \in DOMAIN streams
  /\ streams[s].returned
  /\ streams[s].state = "readable"
  /\ streams[s].queue # <<>>
  /\ LET st == streams[s]
     IN streams' = [streams EXCEPT ![s] =
          IF st.closeRequested /\ Len(st.queue) = 1
          THEN [st EXCEPT !.seen = Append(@, Head(st.queue)),
                          !.queue = <<>>, !.state = "closed",
                          !.terminals = @ + 1]
          ELSE [st EXCEPT !.seen = Append(@, Head(st.queue)),
                          !.queue = Tail(@)]]
  /\ lastOp' = NoOp
  /\ UNCHANGED <<persistVars, agent, sent, activeRequestIds, resumes, resumeResolver>>

\* What reader.read() settles with once nothing is queued: pending on a
\* readable stream, done on a closed one, rejected with the stored error.
outcome(st) ==
  IF st.state = "closed" THEN "close"
  ELSE IF st.state = "errored"
       THEN IF st.storedError.name = "AbortError" THEN "abort" ELSE "error"
       ELSE ""

\* reader.cancel(): a readable stream is closed, its queue dropped, and the
\* underlying source's cancel() runs; otherwise nothing happens.
consumerCancel(s, sendThrows) ==
  /\ s \in DOMAIN streams
  /\ streams[s].returned
  /\ IF streams[s].state = "readable"
     THEN LET st0 == [streams[s] EXCEPT !.state = "closed", !.queue = <<>>,
                                        !.terminals = @ + 1,
                                        !.cancelAsked = TRUE]
              x1 == IF st0.kind = "send"
                    THEN onAbort([st |-> st0, active |-> activeRequestIds,
                                  sent |-> sent], sendThrows)
                    ELSE LET f == resumeFinish([st |-> st0,
                                                active |-> activeRequestIds],
                                               noAction)
                         IN [st |-> f.st, active |-> f.active, sent |-> sent]
          IN /\ streams' = [streams EXCEPT ![s] = x1.st]
             /\ activeRequestIds' = x1.active
             /\ sent' = x1.sent
     ELSE UNCHANGED <<streams, activeRequestIds, sent>>
  /\ lastOp' = NoOp
  /\ UNCHANGED <<persistVars, agent, resumes, resumeResolver>>

\* ------------------------------------------------------------ resume
\* done that leaves this._resumeResolver set.
done_keepsResolver(z, r, value) ==
  IF z.resumes[r].resolved THEN z
  ELSE [resumes |-> [z.resumes EXCEPT ![r].resolved = TRUE,
                                      ![r].stream = value,
                                      ![r].timer = FALSE,
                                      ![r].resolves = @ + 1],
        resolver |-> z.resolver]

\* done that leaves the timer armed.
done_noClearTimeout(z, r, value) ==
  IF z.resumes[r].resolved THEN z
  ELSE [resumes |-> [z.resumes EXCEPT ![r].resolved = TRUE,
                                      ![r].stream = value,
                                      ![r].resolves = @ + 1],
        resolver |-> 0]

\* reconnectToStream: const done = (value) => { ... } of call r; value is
\* the index of the stream resolved with, 0 for null.  z is the pair of the
\* calls and this._resumeResolver.
done(z, r, value) ==
  IF z.resumes[r].resolved THEN z
  ELSE [resumes |-> [z.resumes EXCEPT ![r].resolved = TRUE,
                                      ![r].stream = value,
                                      ![r].timer = FALSE,
                                      ![r].resolves = @ + 1],
        resolver |-> 0]

\* _createResumeStream bound to the connection reconnectToStream saw.
createResumeStream_atRequestTime(requestId, r) ==
  [newStream("resume", requestId, resumes[r].agentAtCall, "none")
     EXCEPT !.returned = TRUE]

\* _createResumeStream whose listener is attached in a later task.
createResumeStream_unbound(requestId, r) ==
  [newStream("resume", requestId, agent, "none")
     EXCEPT !.returned = TRUE, !.listening = FALSE]

\* _createResumeStream(requestId) run for call r: the stream it builds.
createResumeStream(requestId, r) ==
  [newStream("resume", requestId, agent, "none") EXCEPT !.returned = TRUE]

\* reconnectToStream that settles at once when its RESUME_REQUEST fails.
reconnectToStream_rejects(sendThrows) ==
  /\ calls < MaxCalls
  /\ IF sendThrows
     THEN /\ resumes' = Append(resumes, [resolved |-> TRUE, stream |-> 0,
                                         timer |-> FALSE, resolves |-> 1,
                                         agentAtCall |-> agent])
          /\ UNCHANGED <<resumeResolver, sent>>
     ELSE /\ resumes' = Append(resumes, [resolved |-> FALSE, stream |-> 0,
                                         timer |-> TRUE, resolves |-> 0,
                                         agentAtCall |-> agent])
          /\ resumeResolver' = Len(resumes) + 1
          /\ sent' = [sent EXCEPT ![agent] =
                        Append(@, [type |-> CF_AGENT_STREAM_RESUME_REQUEST])]
  /\ lastOp' = NoOp
  /\ UNCHANGED <<persistVars, agent, activeRequestIds, streams>>

\* reconnectToStream that arms no timer.
reconnectToStream_noTimer(sendThrows) ==
  /\ calls < MaxCalls
  /\ resumes' = Append(resumes, [resolved |-> FALSE, stream |-> 0,
                                 timer |-> FALSE, resolves |-> 0,
                                 agentAtCall |-> agent])
  /\ resumeResolver' = Len(resumes) + 1
  /\ sent' = IF sendThrows THEN sent
             ELSE [sent EXCEPT ![agent] =
                     Append(@, [type |-> CF_AGENT_STREAM_RESUME_REQUEST])]
  /\ lastOp' = NoOp
  /\ UNCHANGED <<persistVars, agent, activeRequestIds, streams>>

\* reconnectToStream: sets the resolver, sends RESUME_REQUEST, arms the timer.
reconnectToStream(sendThrows) ==
  /\ calls < MaxCalls
  /\ resumes' = Append(resumes, [resolved |-> FALSE, stream |-> 0,
                                 timer |-> TRUE, resolves |-> 0,
                                 agentAtCall |-> agent])
  /\ resumeResolver' = Len(resumes) + 1
  /\ sent' = IF sendThrows THEN sent
             ELSE [sent EXCEPT ![agent] =
                     Append(@, [type |-> CF_AGENT_STREAM_RESUME_REQUEST])]
  /\ lastOp' = NoOp
  /\ UNCHANGED <<persistVars, agent, activeRequestIds, streams>>

\* handleStreamResuming that acknowledges before it looks at the resolver.
handleStreamResuming_acksFirst(id, sendThrows) ==
  IF resumeResolver = 0
  THEN /\ sent' = IF sendThrows THEN sent
                  ELSE [sent EXCEPT ![agent] =
                          Append(@, [type |-> CF_AGENT_STREAM_RESUME_ACK,
                                     id |-> id])]
       /\ lastOp' = [op |-> "handleStreamResuming", ret |-> "false"]
       /\ UNCHANGED <<persistVars, agent, activeRequestIds, streams, resumes, resumeResolver>>
  ELSE IF sendThrows
  THEN /\ activeRequestIds' = activeRequestIds \cup {id}
       /\ lastOp' = [op |-> "handleStreamResuming", ret |-> "throw"]
       /\ UNCHANGED <<persistVars, agent, sent, streams, resumes, resumeResolver>>
  ELSE /\ Len(streams) < MaxCalls
       /\ activeRequestIds' = activeRequestIds \cup {id}
       /\ sent' = [sent EXCEPT ![agent] =
                     Append(@, [type |-> CF_AGENT_STREAM_RESUME_ACK, id |-> id])]
       /\ streams' = Append(streams, [newStream("resume", id, agent, "none")
                                        EXCEPT !.returned = TRUE])
       /\ resumes' = [resumes EXCEPT ![resumeResolver].resolved = TRUE,
                                     ![resumeResolver].stream = Len(streams) + 1,
                                     ![resumeResolver].timer = FALSE,
                                     ![resumeResolver].resolves = @ + 1]
       /\ resumeResolver' = 0
       /\ lastOp' = [op |-> "handleStreamResuming", ret |-> "true"]
       /\ UNCHANGED <<persistVars, agent>>

\* handleStreamResuming(data), with the body of the resolver closure it calls.
handleStreamResuming(id, sendThrows) ==
  IF resumeResolver = 0
  THEN /\ lastOp' = [op |-> "handleStreamResuming", ret |-> "false"]
       /\ UNCHANGED <<persistVars, agent, sent, activeRequestIds, streams, resumes,
                      resumeResolver>>
  ELSE IF sendThrows
  THEN /\ activeRequestIds' = activeRequestIds \cup {id}
       /\ lastOp' = [op |-> "handleStreamResuming", ret |-> "throw"]
       /\ UNCHANGED <<persistVars, agent, sent, streams, resumes, resumeResolver>>
  ELSE /\ Len(streams) < MaxCalls
       /\ activeRequestIds' = activeRequestIds \cup {id}
       /\ sent' = [sent EXCEPT ![agent] =
                     Append(@, [type |-> CF_AGENT_STREAM_RESUME_ACK, id |-> id])]
       /\ streams' = Append(streams, createResumeStream(id, resumeResolver))
       /\ LET z == done([resumes |-> resumes, resolver |-> resumeResolver],
                        resumeResolver, Len(streams) + 1)
          IN /\ resumes' = z.resumes
             /\ resumeResolver' = z.resolver
       /\ lastOp' = [op |-> "handleStreamResuming", ret |-> "true"]
       /\ UNCHANGED <<persistVars, agent>>

\* The timer armed by call r fires: done(null).  Timers armed with the same
\* delay fire in the order they were armed.
timerFires(r) ==
  /\ r \in DOMAIN resumes
  /\ resumes[r].timer
  /\ \A q \in 1..(r - 1) : ~resumes[q].timer
  /\ LET z0 == [resumes |-> [resumes EXCEPT ![r].timer = FALSE],
                resolver |-> resumeResolver]
         z == done(z0, r, 0)
     IN /\ resumes' = z.resumes
        /\ resumeResolver' = z.resolver
  /\ lastOp' = NoOp
  /\ UNCHANGED <<persistVars, agent, sent, activeRequestIds, streams>>

\* transport.agent = a: the owner installs a new connection handle.
setAgent(a) ==
  /\ a = agent + 1
  /\ agent' = a
  /\ lastOp' = NoOp
  /\ UNCHANGED <<persistVars, sent, activeRequestIds, streams, resumes,
                 resumeResolver>>

\* -------------------------------------------------------------- Next
\* The transport with every operation, under response frames that carry
\* no chunk.
Next ==
  \/ \E id \in Ids, sig \in {"armed", "aborted"}, th \in BOOLEAN :
       sendMessages(id, "submit-message", sig, NoExtraBody, th)
  \/ \E s \in 1..MaxCalls, th \in BOOLEAN : abortSignalFires(s, th)
  \/ \E a \in Agents, data \in ControlFrames : dispatch(a, data)
  \/ \E s \in 1..MaxCalls, th \in BOOLEAN : consumerCancel(s, th)
  \/ \E th \in BOOLEAN : reconnectToStream(th)
  \/ \E id \in Ids, th \in BOOLEAN : handleStreamResuming(id, th)
  \/ \E r \in 1..MaxCalls : timerFires(r)
  \/ \E a \in Agents : setAgent(a)

Spec == Init /\ [][Next]_vars

\* The streams under every response frame and a consumer that reads, on a
\* connection that stays and accepts every send.
NextChunks ==
  \/ \E id \in Ids, sig \in {"armed", "aborted"} :
       sendMessages(id, "submit-message", sig, NoExtraBody, FALSE)
  \/ \E s \in 1..MaxCalls : abortSignalFires(s, FALSE)
  \/ \E a \in Agents, data \in InboundFrames : dispatch(a, data)
  \/ \E s \in 1..MaxCalls : consumerRead(s)
  \/ \E s \in 1..MaxCalls : consumerCancel(s, FALSE)
  \/ reconnectToStream(FALSE)
  \/ \E id \in Ids : handleStreamResuming(id, FALSE)

SpecChunks == Init /\ [][NextChunks]_vars

\* The requests of callers with either trigger and any extra fields, on a
\* connection that accepts every send.
NextPayload ==
  \/ \E id \in Ids, trigger \in Triggers, sig \in {"none", "armed"},
        extraBody \in ExtraBodies :
       sendMessages(id, trigger, sig, extraBody, FALSE)
  \/ \E s \in 1..MaxCalls : abortSignalFires(s, FALSE)
  \/ \E a \in Agents, data \in ControlFrames : dispatch(a, data)
  \/ \E s \in 1..MaxCalls : consumerCancel(s, FALSE)

SpecPayload == Init /\ [][NextPayload]_vars

\* The transport of Spec with timers that fire: a timeout armed with
\* setTimeout runs once its delay has passed unless it was cleared.
SpecLive ==
  Init /\ [][Next]_vars /\ \A r \in 1..MaxCalls : WF_vars(timerFires(r))

\* The frames of a response the server is still streaming: frames with a
\* chunk and no end, and the frame that ends it.
ChunkFrames ==
  {f \in ResponseFrames : ~f.done /\ ~f.error /\ f.body \in {"1", "2"}}
doneFrame(id) ==
  [raw |-> "json", type |-> CF_AGENT_USE_CHAT_RESPONSE, id |-> id, body |-> "",
   done |-> TRUE, error |-> FALSE, replay |-> FALSE]

\* The server puts a frame of a response on the connection the transport
\* holds now.
serverDelivers(data) == dispatch(agent, data)
serverFinishes(id) == dispatch(agent, doneFrame(id))

\* The transport whose connection may be replaced while a server streams
\* its responses on the current connection and ends every one of them.
NextSwap ==
  \/ \E id \in Ids : sendMessages(id, "submit-message", "none", NoExtraBody, FALSE)
  \/ reconnectToStream(FALSE)
  \/ \E id \in Ids : handleStreamResuming(id, FALSE)
  \/ \E r \in 1..MaxCalls : timerFires(r)
  \/ \E a \in Agents : setAgent(a)
  \/ \E data \in ChunkFrames : serverDelivers(data)
  \/ \E id \in Ids : serverFinishes(id)
  \/ \E s \in 1..MaxCalls : consumerRead(s)

SpecSwap ==
  Init /\ [][NextSwap]_vars /\ \A id \in Ids : WF_vars(serverFinishes(id))

\* ===================================================== reconciliation
\* persistMessages of the chat agent: the incoming client list is reconciled
\* with the stored rows, the result is upserted and stale rows are deleted.
\* A message is its identifier, its role and its serialized content.
Msg(id, role, content) == [id |-> id, role |-> role, content |-> content]

\* The stored conversation of the tests, user messages with one text and
\* assistant messages answering "Sure" or "Ok".
Contents == {"Sure", "Ok"}
ServerRows ==
  { <<Msg("u1", "user", "Hi"), Msg("s1", "assistant", c1),
      Msg("u2", "user", "Hi"), Msg("s2", "assistant", c2)>> :
      c1 \in Contents, c2 \in Contents }

\* An order-preserving selection of the rows of l whose positions are in p.
RECURSIVE pick(_, _, _)
pick(l, p, i) ==
  IF i > Len(l) THEN <<>>
  ELSE (IF i \in p THEN <<l[i]>> ELSE <<>>) \o pick(l, p, i + 1)

\* What the store may hold before a call: the conversation or what trims
\* have left of it.
ServerLists ==
  { pick(l, p, 1) : l \in ServerRows, p \in SUBSET (1..MaxMessages) }

\* What a client may send: the server's messages under their identifiers,
\* assistant messages under identifiers the client made up, and a user
\* message the server never saw.
ClientMessages ==
  { Msg(id, "user", "Hi") : id \in {"u1", "u2", "v1"} }
    \cup { Msg(id, "assistant", c) : id \in {"s1", "s2", "x1", "x2"},
                                     c \in Contents }

idsOf(l) == [i \in DOMAIN l |-> l[i].id]
idSet(l) == {l[i].id : i \in DOMAIN l}
distinctIds(l) == \A i, j \in DOMAIN l : i # j => l[i].id # l[j].id

ClientLists ==
  UNION { { l \in [1..n -> ClientMessages] : distinctIds(l) } :
            n \in 0..MaxMessages }

\* The server indices claimed so far; m[i] is the server index client
\* message i has claimed, 0 for none.
claimed_forgets(m) == {}

claimed(m) == {m[i] : i \in DOMAIN m} \ {0}

\* The last index of a set instead of the first.
Least_latest(S) == CHOOSE j \in S : \A k \in S : j >= k

Least(S) == CHOOSE j \in S : \A k \in S : j <= k

\* Pass 1: each client message, in order, claims the unclaimed server
\* message with its identifier.
RECURSIVE exactIdPass(_, _, _, _)
exactIdPass(server, client, i, m) ==
  IF i > Len(client) THEN m
  ELSE LET cand == { j \in DOMAIN server :
                       j \notin claimed(m) /\ server[j].id = client[i].id }
       IN exactIdPass(server, client, i + 1,
                      IF cand = {} THEN m ELSE [m EXCEPT ![i] = Least(cand)])

\* A content pass that looks only past the last index claimed so far.
RECURSIVE contentPass_cursor(_, _, _, _)
contentPass_cursor(server, client, i, m) ==
  IF i > Len(client) THEN m
  ELSE IF m[i] # 0 THEN contentPass_cursor(server, client, i + 1, m)
  ELSE LET cand == { j \in DOMAIN server :
                       /\ \A k \in claimed(m) : j > k
                       /\ client[i].role = "assistant"
                       /\ server[j].role = client[i].role
                       /\ server[j].content = client[i].content }
       IN contentPass_cursor(server, client, i + 1,
                             IF cand = {} THEN m ELSE [m EXCEPT ![i] = Least(cand)])

\* A content pass that matches messages of every role.
RECURSIVE contentPass_anyRole(_, _, _, _)
contentPass_anyRole(server, client, i, m) ==
  IF i > Len(client) THEN m
  ELSE IF m[i] # 0 THEN contentPass_anyRole(server, client, i + 1, m)
  ELSE LET cand == { j \in DOMAIN server :
                       /\ j \notin claimed(m)
                       /\ server[j].role = client[i].role
                       /\ server[j].content = client[i].content }
       IN contentPass_anyRole(server, client, i + 1,
                              IF cand = {} THEN m ELSE [m EXCEPT ![i] = Least(cand)])

\* Pass 2: each assistant message pass 1 left unclaimed, in order, claims
\* the first of all unclaimed server messages with its role and content.
RECURSIVE contentPass(_, _, _, _)
contentPass(server, client, i, m) ==
  IF i > Len(client) THEN m
  ELSE IF m[i] # 0 THEN contentPass(server, client, i + 1, m)
  ELSE LET cand == { j \in DOMAIN server :
                       /\ j \notin claimed(m)
                       /\ client[i].role = "assistant"
                       /\ server[j].role = client[i].role
                       /\ server[j].content = client[i].content }
       IN contentPass(server, client, i + 1,
                      IF cand = {} THEN m ELSE [m EXCEPT ![i] = Least(cand)])

\* A merge that puts the server messages nobody claimed after the
\* client's.
reconcile_reintroduces(server, client) ==
  LET m == contentPass(server, client, 1,
                       exactIdPass(server, client, 1, [i \in DOMAIN client |-> 0]))
      kept == [i \in DOMAIN client |->
                 [client[i] EXCEPT !.id = IF m[i] = 0 THEN @ ELSE server[m[i]].id]]
  IN kept \o pick(server, DOMAIN server \ claimed(m), 1)

\* The final list: the client's messages, each under the identifier of the
\* server message it claimed, or under its own.
reconcile(server, client) ==
  LET m == contentPass(server, client, 1,
                       exactIdPass(server, client, 1, [i \in DOMAIN client |-> 0]))
  IN [i \in DOMAIN client |->
        [client[i] EXCEPT !.id = IF m[i] = 0 THEN @ ELSE server[m[i]].id]]

\* Deletion of every server identifier the final list lacks.
toDelete_ungated(server, final) == idSet(server) \ idSet(final)

\* The rows to delete: the server's identifiers the final list lacks, but
\* only when the final list brings no identifier the server never had.
toDelete(server, final) ==
  IF idSet(final) \subseteq idSet(server)
  THEN idSet(server) \ idSet(final)
  ELSE {}

\* Upsert by identifier: a row with the identifier is replaced where it
\* is, a new one is appended.
upsert(rows, msg) ==
  IF msg.id \in idSet(rows)
  THEN [i \in DOMAIN rows |-> IF rows[i].id = msg.id THEN msg ELSE rows[i]]
  ELSE Append(rows, msg)

RECURSIVE upsertAll(_, _, _)
upsertAll(rows, final, i) ==
  IF i > Len(final) THEN rows
  ELSE upsertAll(upsert(rows, final[i]), final, i + 1)

RECURSIVE deleteRows(_, _)
deleteRows(rows, ids) ==
  IF rows = <<>> THEN <<>>
  ELSE (IF Head(rows).id \in ids THEN <<>> ELSE <<Head(rows)>>)
         \o deleteRows(Tail(rows), ids)

\* The store after the batch: upserts, then the permitted deletions.
apply(rows, final, deleteIds) == deleteRows(upsertAll(rows, final, 1), deleteIds)

persistMessages(client) ==
  /\ lastPersist.n < MaxPersists
  /\ LET final == reconcile(store, client)
         del == toDelete(store, final)
     IN /\ store' = apply(store, final, del)
        /\ lastPersist' = [n |-> lastPersist.n + 1, server |-> store,
                           client |-> client, final |-> final, deleted |-> del]
  /\ UNCHANGED <<agent, sent, activeRequestIds, streams, resumes,
                 resumeResolver, lastOp>>

\* The first call of a run persists any client list.
persistIncoming ==
  /\ lastPersist.n = 0
  /\ \E client \in ClientLists : persistMessages(client)

\* A later call persists the list of the call before it again.
persistAgain ==
  /\ lastPersist.n > 0
  /\ persistMessages(lastPersist.client)

\* The store, from every list it may hold, under persistMessages calls.
InitReconcile ==
  /\ agent = 1
  /\ sent = [a \in Agents |-> <<>>]
  /\ activeRequestIds = {}
  /\ streams = <<>>
  /\ resumes = <<>>
  /\ resumeResolver = 0
  /\ lastOp = NoOp
  /\ store \in ServerLists
  /\ lastPersist = NoPersist

NextReconcile == persistIncoming \/ persistAgain

SpecReconcile == InitReconcile /\ [][NextReconcile]_vars

\* ============================================================ properties
isHandoff == lastOp'.op = "handleStreamResuming"

\* The RESUME_ACK frames connection a accepted.
acks(snt, a) ==
  Cardinality({i \in DOMAIN snt[a] : snt[a][i].type = CF_AGENT_STREAM_RESUME_ACK})
RECURSIVE sumAcks(_, _)
sumAcks(snt, a) == IF a = 0 THEN 0 ELSE acks(snt, a) + sumAcks(snt, a - 1)
ackCount(snt) == sumAcks(snt, NumAgents)

\* The timer of call r fires in this step and resolves it with null.
timesOut(r) ==
  /\ r \in DOMAIN resumes
  /\ resumes[r].timer
  /\ ~resumes[r].resolved
  /\ resumes'[r].resolved
  /\ resumes'[r].stream = 0

\* C1: a stream a caller holds, whose routed frames end with done=true and
\* carry no error, and which nobody cancelled, hands its consumer exactly
\* the chunks of those frames in arrival order (read or still queued), then
\* close; before the done frame it stays open.
C1_ChunksInOrderThenClose ==
  \A s \in DOMAIN streams :
    LET st == streams[s]
    IN (st.returned /\ ~st.cancelAsked /\ st.wireEnd # "error") =>
         /\ st.seen \o st.queue = st.expected
         /\ st.wireEnd = "" => (st.state = "readable" /\ ~st.closeRequested)
         /\ st.wireEnd = "done" =>
              /\ st.closeRequested
              /\ st.actionRuns = 1
              /\ st.terminals <= 1
              /\ st.queue = <<>> => outcome(st) = "close"

\* A resumed stream whose consumer read the replayed chunk, then the live
\* chunk, then the close.
C1_Witness ==
  \E s \in DOMAIN streams :
    /\ streams[s].kind = "resume"
    /\ streams[s].wireEnd = "done"
    /\ streams[s].seen = <<1, 2>>
    /\ streams[s].queue = <<>>
    /\ outcome(streams[s]) = "close"

\* C2: every stream runs the action of its finish at most once and leaves
\* the readable state at most once, whatever the order of done frames,
\* error frames, abort signals and consumer cancels.
C2_OneTerminalTransition ==
  \A s \in DOMAIN streams :
    /\ streams[s].actionRuns <= 1
    /\ streams[s].terminals <= 1
    /\ streams[s].terminals = 1 <=> streams[s].state # "readable"
    /\ streams[s].actionRuns = 1 <=> streams[s].completed

\* A resumed stream whose done frame arrived while a chunk was queued and
\* whose consumer then cancelled.
C2_Witness ==
  \E s \in DOMAIN streams :
    /\ streams[s].kind = "resume"
    /\ streams[s].wireEnd = "done"
    /\ streams[s].cancelAsked
    /\ streams[s].expected # <<>>
    /\ streams[s].seen = <<>>
    /\ streams[s].actionRuns = 1

\* C3: while the most recent resume call is unresolved the pending slot
\* holds its resolver, whatever timers of superseded calls have fired, so
\* a hand-off reaches it.
C3_LatestResolverStays ==
  (resumes # <<>> /\ ~resumes[Len(resumes)].resolved)
    => resumeResolver = Len(resumes)

\* C4: with two resume calls pending and no timer fired, a hand-off returns
\* true, resolves the second call with a stream and leaves the first
\* waiting for its timer.
C4_LatestOfTwoResolves ==
  [][(/\ isHandoff
      /\ Len(resumes) = 2
      /\ ~resumes[1].resolved /\ resumes[1].timer
      /\ ~resumes[2].resolved /\ resumes[2].timer)
     => (/\ lastOp'.ret = "true"
         /\ resumes'[2].resolved /\ resumes'[2].stream # 0
         /\ ~resumes'[1].resolved /\ resumes'[1].timer)]_vars

\* C5: a hand-off while the one resume call made is pending returns true,
\* transmits exactly one RESUME_ACK and empties the pending slot; a
\* hand-off on an empty slot returns false and transmits nothing.
C5_HandoffConsumesResolver ==
  [][/\ (isHandoff /\ Len(resumes) = 1 /\ ~resumes[1].resolved)
          => (/\ lastOp'.ret = "true"
              /\ resumeResolver' = 0
              /\ ackCount(sent') = ackCount(sent) + 1)
     /\ (isHandoff /\ resumeResolver = 0)
          => (lastOp'.ret = "false" /\ sent' = sent)]_vars

\* C6: a hand-off while every resume call made so far is resolved (or none
\* was made) returns false and changes nothing: no frame, no identifier,
\* no stream, no listener.
C6_IdleHandoffIsNoOp ==
  [][(isHandoff /\ \A r \in DOMAIN resumes : resumes[r].resolved)
     => (/\ lastOp'.ret = "false"
         /\ UNCHANGED <<agent, sent, activeRequestIds, streams, resumes,
                        resumeResolver>>)]_vars

\* Hand-off returned false after one call was resolved by a hand-off and
\* another timed out.
C6_Witness ==
  /\ lastOp = [op |-> "handleStreamResuming", ret |-> "false"]
  /\ Len(resumes) = 2
  /\ \E r, q \in DOMAIN resumes :
       /\ resumes[r].resolved /\ resumes[r].stream # 0
       /\ resumes[q].resolved /\ resumes[q].stream = 0

\* C7: the timer of an unresolved resume call resolves it with null and
\* empties the pending slot, and a hand-off on the empty slot returns false.
C7_TimeoutResolvesNull ==
  [][/\ \A r \in DOMAIN resumes :
          timesOut(r) => (resumeResolver' = 0 /\ resumes'[r].resolves = 1)
     /\ \A r \in DOMAIN resumes :
          (resumes[r].timer /\ ~resumes'[r].timer /\ ~isHandoff)
            => timesOut(r)
     /\ (isHandoff /\ resumeResolver = 0) => lastOp'.ret = "false"]_vars

\* A call timed out with no hand-off before, and the hand-off after it
\* returned false.
C7_Witness ==
  /\ lastOp = [op |-> "handleStreamResuming", ret |-> "false"]
  /\ Len(resumes) = 1
  /\ resumes[1].resolved /\ resumes[1].stream = 0
  /\ streams = <<>>

\* C8: a hand-off that resolves puts its RESUME_ACK on the connection
\* installed at that moment and on no other, and the stream it creates
\* listens on that connection.
C8_HandoffUsesCurrentAgent ==
  [][(isHandoff /\ lastOp'.ret = "true") =>
       /\ Len(streams') = Len(streams) + 1
       /\ streams'[Len(streams')].agent = agent
       /\ streams'[Len(streams')].listening
       /\ sent'[agent] = Append(sent[agent],
            [type |-> CF_AGENT_STREAM_RESUME_ACK,
             id |-> streams'[Len(streams')].id])
       /\ \A a \in Agents \ {agent} : sent'[a] = sent[a]]_vars

\* The connection was replaced between the call and the hand-off: the old
\* one carries the RESUME_REQUEST alone, the new one the RESUME_ACK, and a
\* done frame put on the new one finished the resumed stream.
C8_Witness ==
  \E r \in DOMAIN resumes :
    /\ resumes[r].stream # 0
    /\ LET st == streams[resumes[r].stream]
       IN /\ st.agent # resumes[r].agentAtCall
          /\ sent[resumes[r].agentAtCall] =
               <<[type |-> CF_AGENT_STREAM_RESUME_REQUEST]>>
          /\ sent[st.agent] = <<[type |-> CF_AGENT_STREAM_RESUME_ACK,
                                 id |-> st.id]>>
          /\ st.wireEnd = "done"
          /\ st.completed

\* C9: no two streams that have not finished are bound to one identifier.
C9_OneActivePerId ==
  \A i, j \in DOMAIN streams :
    (i # j /\ ~streams[i].completed /\ ~streams[j].completed)
      => streams[i].id # streams[j].id

\* C10: the identifier of a stream that has not finished is in the active
\* set, and a stream's terminal transition leaves its identifier out of it.
C10_ActiveWhileNonTerminal ==
  \A s \in DOMAIN streams :
    ~streams[s].completed => streams[s].id \in activeRequestIds

\* The CANCEL frames for identifier id the connections accepted.
cancelsOn(snt, a, id) ==
  Cardinality({i \in DOMAIN snt[a] :
                 snt[a][i] = [type |-> CF_AGENT_CHAT_REQUEST_CANCEL, id |-> id]})
RECURSIVE sumCancels(_, _, _)
sumCancels(snt, a, id) ==
  IF a = 0 THEN 0 ELSE cancelsOn(snt, a, id) + sumCancels(snt, a - 1, id)
cancelCount(snt, id) == sumCancels(snt, NumAgents, id)

\* C11: a sendMessages stream cancelled (by its abort signal, by its
\* consumer, or by both) before any frame reached it has put exactly one
\* CANCEL frame for its identifier on the wire and shows its consumer the
\* abort outcome, reached in one terminal transition.
C11_CancelOnceAbortOnce ==
  \A s \in DOMAIN streams :
    LET st == streams[s]
    IN (st.kind = "send" /\ st.returned /\ st.cancelAsked
          /\ st.wireEnd = "" /\ st.expected = <<>>) =>
         /\ cancelCount(sent, st.id) = 1
         /\ st.actionRuns = 1
         /\ st.terminals = 1
         /\ outcome(st) = "abort"

\* C12: the consumer cancelling a stream that has not finished, of either
\* kind, runs finish once and puts one CANCEL frame for the stream's
\* identifier on a connection that accepts it.
C12_ConsumerCancelSendsCancel ==
  [][\A s \in DOMAIN streams :
       (/\ streams[s].state = "readable"
        /\ ~streams[s].completed
        /\ ~streams[s].cancelAsked
        /\ streams'[s].cancelAsked
        /\ streams'[s].state = "closed")
       => (/\ streams'[s].completed
           /\ streams'[s].actionRuns = 1
           /\ cancelCount(sent', streams[s].id)
                = cancelCount(sent, streams[s].id) + 1)]_vars

\* C13: a hand-off on a pending resume call whose RESUME_ACK the connection
\* did not accept still returns true, empties the pending slot and resolves
\* the call with a stream bound to the identifier.
C13_AckFailureSwallowed ==
  [][(isHandoff /\ resumeResolver # 0 /\ ackCount(sent') = ackCount(sent))
     => (/\ lastOp'.ret = "true"
         /\ resumeResolver' = 0
         /\ resumes'[resumeResolver].resolved
         /\ resumes'[resumeResolver].stream # 0
         /\ streams'[resumes'[resumeResolver].stream].id \in activeRequestIds')]_vars

\* The SEND_REQUEST frames for identifier id the connections accepted.
requestsOn(snt, a, id) ==
  Cardinality({i \in DOMAIN snt[a] :
                 /\ snt[a][i].type = CF_AGENT_USE_CHAT_REQUEST
                 /\ snt[a][i].id = id})
RECURSIVE sumRequests(_, _, _)
sumRequests(snt, a, id) ==
  IF a = 0 THEN 0 ELSE requestsOn(snt, a, id) + sumRequests(snt, a - 1, id)
requestCount(snt, id) == sumRequests(snt, NumAgents, id)

\* C14: a sendMessages call hands its caller the stream exactly when the
\* connection accepted its SEND_REQUEST: when that send throws, the call
\* fails and no stream is returned.
C14_SendFailurePropagates ==
  [][(Len(streams') = Len(streams) + 1 /\ streams'[Len(streams')].kind = "send")
     => LET st == streams'[Len(streams')]
        IN /\ requestCount(sent, st.id) = 0
           /\ st.returned <=> requestCount(sent', st.id) = 1
           /\ ~st.returned <=> requestCount(sent', st.id) = 0]_vars

\* A sendMessages call failed on its SEND_REQUEST: nothing of it is on the
\* wire and no caller holds its stream.
C14_Witness ==
  \E s \in DOMAIN streams :
    /\ streams[s].kind = "send"
    /\ ~streams[s].returned
    /\ streams[s].signal = "armed"
    /\ requestCount(sent, streams[s].id) = 0
    /\ cancelCount(sent, streams[s].id) = 0

isDispatch == lastOp'.op = "dispatch"

\* C16: the delivery of a response frame leaves every finished stream and
\* every stream bound to another identifier as it was, and takes no other
\* identifier out of the active set; when every stream bound to the frame's
\* identifier has finished, or none is, nothing changes at all.
C16_UnmatchedFrameDropped ==
  [][isDispatch =>
       /\ \A s \in DOMAIN streams :
            (ToString(streams[s].id) # lastOp'.ret \/ streams[s].completed)
              => streams'[s] = streams[s]
       /\ activeRequestIds' \subseteq activeRequestIds
       /\ \A i \in activeRequestIds \ activeRequestIds' :
            ToString(i) = lastOp'.ret
       /\ (\A s \in DOMAIN streams :
             ToString(streams[s].id) = lastOp'.ret => streams[s].completed)
            => UNCHANGED <<agent, sent, activeRequestIds, streams, resumes,
                           resumeResolver>>]_vars

\* A response frame was delivered for the identifier of a stream its
\* consumer had cancelled, while a stream bound to another identifier was
\* open with a chunk queued.
C16_Witness ==
  /\ lastOp.op = "dispatch"
  /\ \E s, t \in DOMAIN streams :
       /\ ToString(streams[s].id) = lastOp.ret
       /\ streams[s].completed
       /\ streams[s].cancelAsked
       /\ streams[s].wireEnd = ""
       /\ streams[t].id # streams[s].id
       /\ ~streams[t].completed
       /\ streams[t].queue # <<>>

\* C17: the error frame that ends the frames routed to a stream errors that
\* stream with an Error whose message is the frame's body, or "Stream error"
\* for an empty body; the body is neither queued nor read as a chunk, the
\* identifier leaves the active set, and every stream bound to another
\* identifier and every other entry of the active set stay as they were.
C17_ErrorFrameEndsOneStream ==
  [][\A s \in DOMAIN streams :
       (streams[s].wireEnd = "" /\ streams'[s].wireEnd = "error") =>
         LET st == streams'[s]
         IN /\ st.state = "errored"
            /\ outcome(st) = "error"
            /\ st.storedError.name = "Error"
            /\ st.storedError.message =
                 (IF st.errorBody = "" THEN "Stream error" ELSE st.errorBody)
            /\ st.queue = <<>>
            /\ st.seen = streams[s].seen
            /\ st.expected = streams[s].expected
            /\ st.terminals = 1
            /\ activeRequestIds' = activeRequestIds \ {st.id}
            /\ \A t \in DOMAIN streams :
                 streams[t].id # st.id => streams'[t] = streams[t]]_vars

\* One stream was errored by a frame with an empty body and shows the
\* fallback text, while a stream bound to another identifier is open and
\* still in the active set.
C17_Witness ==
  \E s, t \in DOMAIN streams :
    /\ streams[s].wireEnd = "error"
    /\ streams[s].errorBody = ""
    /\ streams[s].storedError = [name |-> "Error", message |-> "Stream error"]
    /\ streams[t].id # streams[s].id
    /\ streams[t].state = "readable"
    /\ ~streams[t].completed
    /\ streams[t].id \in activeRequestIds

\* C18: a stream ended by a cancellation of its caller (abort signal or
\* consumer cancel) shows the abort outcome, and a stream ended by a server
\* error frame shows the error outcome: neither shows the other's.
C18_AbortDistinctFromError ==
  \A s \in DOMAIN streams :
    LET st == streams[s]
    IN /\ (st.returned /\ st.cancelAsked /\ st.wireEnd = "")
            => outcome(st) = "abort"
       /\ (st.returned /\ st.wireEnd = "error") => outcome(st) = "error"

\* The client list is the stored conversation with every assistant message
\* under an identifier the client made up, and the stored assistant
\* messages, under identifiers of the server, all have one content.
sameConversation(server, client) ==
  /\ Len(client) = Len(server)
  /\ \A i \in DOMAIN server :
       /\ client[i].role = server[i].role
       /\ client[i].content = server[i].content
       /\ server[i].role = "user" => client[i].id = server[i].id
       /\ server[i].role = "assistant" =>
            (server[i].id \in {"s1", "s2"} /\ client[i].id \in {"x1", "x2"})
  /\ \A i, j \in DOMAIN server :
       (server[i].role = "assistant" /\ server[j].role = "assistant")
         => server[i].content = server[j].content

\* C19: when the store holds assistant messages of one content and the
\* client sends the same conversation with assistant identifiers of its
\* own, every client assistant message takes the identifier of a server
\* message of its own, in order: the final identifiers are the stored ones
\* with no duplicate, no client identifier is left, nothing is deleted and
\* the store keeps its rows; [u1,x1,u2,x2] against [u1,s1,u2,s2] gives
\* [u1,s1,u2,s2].
C19_DuplicateContentDistinctIds ==
  (lastPersist.n > 0 /\ sameConversation(lastPersist.server, lastPersist.client))
    => /\ distinctIds(lastPersist.final)
       /\ idSet(lastPersist.final) \cap {"x1", "x2"} = {}
       /\ idsOf(lastPersist.final) = idsOf(lastPersist.server)
       /\ lastPersist.deleted = {}
       /\ idsOf(store) = idsOf(lastPersist.server)

\* The example: two stored "Sure" answers, the client's under x1 and x2.
C19_Witness ==
  /\ lastPersist.n = 1
  /\ idsOf(lastPersist.server) = <<"u1", "s1", "u2", "s2">>
  /\ lastPersist.server[2].content = "Sure"
  /\ lastPersist.server[4].content = "Sure"
  /\ idsOf(lastPersist.client) = <<"u1", "x1", "u2", "x2">>
  /\ lastPersist.client[2].content = "Sure"
  /\ lastPersist.client[4].content = "Sure"
  /\ idsOf(lastPersist.final) = <<"u1", "s1", "u2", "s2">>
  /\ lastPersist.deleted = {}
  /\ Len(store) = 4

\* C20: no client assistant message is left under an identifier the
\* server never had while a server message of its role and content is
\* unclaimed, wherever the identifier matches fell; [u1,s2,u2,x1] against
\* [u1,s1,u2,s2] of one content gives [u1,s2,u2,s1] and four stored rows.
C20_ContentPassScansAllUnclaimed ==
  lastPersist.n > 0 =>
    LET server == lastPersist.server
        client == lastPersist.client
        final == lastPersist.final
    IN /\ \A i \in DOMAIN final, j \in DOMAIN server :
            (final[i].role = "assistant" /\ final[i].id \notin idSet(server))
              => ~(/\ server[j].id \notin idSet(final)
                   /\ server[j].role = "assistant"
                   /\ server[j].content = final[i].content)
       /\ (/\ idsOf(server) = <<"u1", "s1", "u2", "s2">>
           /\ server[2].content = server[4].content
           /\ idsOf(client) = <<"u1", "s2", "u2", "x1">>
           /\ client[2].content = server[2].content
           /\ client[4].content = server[2].content)
            => (/\ idsOf(final) = <<"u1", "s2", "u2", "s1">>
                /\ Len(store) = 4
                /\ idSet(store) = {"u1", "s1", "u2", "s2"})

\* The example: s2 sent out of position, x1 after it.
C20_Witness ==
  /\ lastPersist.n = 1
  /\ idsOf(lastPersist.server) = <<"u1", "s1", "u2", "s2">>
  /\ lastPersist.server[2].content = "Sure"
  /\ lastPersist.server[4].content = "Sure"
  /\ idsOf(lastPersist.client) = <<"u1", "s2", "u2", "x1">>
  /\ lastPersist.client[2].content = "Sure"
  /\ lastPersist.client[4].content = "Sure"
  /\ idsOf(lastPersist.final) = <<"u1", "s2", "u2", "s1">>
  /\ Len(store) = 4

\* C21: a persistMessages call deletes rows only when every final
\* identifier is one the store had, and then exactly the stored identifiers
\* the final list lacks; when the final list brings an identifier the store
\* never had, every stored row survives.
C21_DeletionGated ==
  lastPersist.n > 0 =>
    LET S == idSet(lastPersist.server)
        F == idSet(lastPersist.final)
    IN /\ lastPersist.deleted = (IF F \subseteq S THEN S \ F ELSE {})
       /\ idSet(store) = (S \cup F) \ lastPersist.deleted
       /\ (F \subseteq S) => idSet(store) = F
       /\ ~(F \subseteq S) => S \subseteq idSet(store)

\* The client kept two stored messages, added one of its own and left a
\* stored one out: nothing was deleted.
C21_Witness ==
  /\ lastPersist.n = 1
  /\ Len(lastPersist.server) = 3
  /\ Len(lastPersist.final) = 3
  /\ Cardinality(idSet(lastPersist.final) \cap idSet(lastPersist.server)) = 2
  /\ idSet(lastPersist.server) \ idSet(lastPersist.final) # {}
  /\ lastPersist.deleted = {}
  /\ Len(store) = 4

\* C22: the final list has one entry per client message, in the client's
\* order, with the client's role and content; an entry carries the client's
\* identifier or that of a server message of its role and content; a client
\* message that matches nothing keeps its identifier and becomes a row; no
\* identifier appears twice and no unclaimed server message is added.
C22_FinalListIsClientList ==
  lastPersist.n > 0 =>
    LET server == lastPersist.server
        client == lastPersist.client
        final == lastPersist.final
    IN /\ Len(final) = Len(client)
       /\ distinctIds(final)
       /\ \A i \in DOMAIN client :
            /\ final[i].role = client[i].role
            /\ final[i].content = client[i].content
            /\ \/ final[i].id = client[i].id
               \/ \E j \in DOMAIN server :
                    /\ server[j].id = final[i].id
                    /\ server[j].role = client[i].role
                    /\ server[j].content = client[i].content
            /\ (/\ client[i].id \notin idSet(server)
                /\ ~\E j \in DOMAIN server :
                      /\ server[j].role = client[i].role
                      /\ server[j].content = client[i].content)
                 => (final[i].id = client[i].id /\ client[i].id \in idSet(store))

\* A client message that matched nothing kept its identifier as a new row
\* while a stored message nobody claimed stayed out of the final list.
C22_Witness ==
  /\ lastPersist.n = 1
  /\ Len(lastPersist.client) = 2
  /\ \E i \in DOMAIN lastPersist.final :
       /\ lastPersist.client[i].id = "x1"
       /\ lastPersist.final[i].id = "x1"
       /\ "x1" \in idSet(store)
  /\ \E j \in DOMAIN lastPersist.server :
       /\ lastPersist.server[j].role = "assistant"
       /\ lastPersist.server[j].id \notin idSet(lastPersist.final)

\* The server index holding identifier id.
indexOf(server, id) == CHOOSE j \in DOMAIN server : server[j].id = id

\* C29: a client message remapped by content took the first server message
\* of its role and content that was unclaimed at its turn: every earlier
\* one was claimed by identifier or by an earlier client message.
C29_EarliestUnclaimedWins ==
  lastPersist.n > 0 =>
    LET server == lastPersist.server
        client == lastPersist.client
        final == lastPersist.final
    IN \A i \in DOMAIN client :
         final[i].id # client[i].id =>
           \A k \in 1..(indexOf(server, final[i].id) - 1) :
             (server[k].role = client[i].role
                /\ server[k].content = client[i].content)
               => \/ \E h \in DOMAIN client : client[h].id = server[k].id
                  \/ \E h \in 1..(i - 1) : final[h].id = server[k].id

\* One client answer against two stored answers of its content: it took
\* the first and left the second unclaimed.
C29_Witness ==
  /\ lastPersist.n = 1
  /\ idsOf(lastPersist.server) = <<"u1", "s1", "u2", "s2">>
  /\ lastPersist.server[2].content = lastPersist.server[4].content
  /\ idsOf(lastPersist.client) = <<"x1">>
  /\ lastPersist.client[1].content = lastPersist.server[2].content
  /\ idsOf(lastPersist.final) = <<"s1">>

\* C30: a client message that is no assistant message keeps its identifier
\* whatever the store holds, and is a row of the store afterwards.
C30_OnlyAssistantsContentMatched ==
  lastPersist.n > 0 =>
    \A i \in DOMAIN lastPersist.client :
      lastPersist.client[i].role # "assistant" =>
        /\ lastPersist.final[i].id = lastPersist.client[i].id
        /\ lastPersist.client[i].id \in idSet(store)

\* The client's user message v1 met an unclaimed stored user message of the
\* same content and stayed v1, next to it in the store.
C30_Witness ==
  /\ lastPersist.n = 1
  /\ \E i \in DOMAIN lastPersist.client, j \in DOMAIN lastPersist.server :
       /\ lastPersist.client[i].id = "v1"
       /\ lastPersist.server[j].role = "user"
       /\ lastPersist.server[j].content = lastPersist.client[i].content
       /\ lastPersist.server[j].id \notin idSet(lastPersist.client)
       /\ lastPersist.final[i].id = "v1"
       /\ {"v1", lastPersist.server[j].id} \subseteq idSet(store)

unparseableDelivered == [op |-> "dispatch", ret |-> "unparseable"]

\* C23: the delivery of data that is no JSON changes no stream, not the
\* pending-resume slot and not the active set, and a chunk frame routed to
\* a stream right after it is queued for that stream's consumer.
C23_UnparseableFrameDropped ==
  [][/\ lastOp' = unparseableDelivered =>
          UNCHANGED <<agent, sent, activeRequestIds, streams, resumes,
                      resumeResolver>>
     /\ lastOp = unparseableDelivered =>
          \A s \in DOMAIN streams :
            Len(streams'[s].expected) = Len(streams[s].expected) + 1 =>
              streams'[s].queue =
                Append(streams[s].queue,
                       streams'[s].expected[Len(streams'[s].expected)])]_vars

\* Unparseable data was delivered while a resumed stream was open with a
\* chunk queued and its identifier active, and a resume call was pending.
C23_Witness ==
  /\ lastOp = unparseableDelivered
  /\ resumeResolver # 0
  /\ \E s \in DOMAIN streams :
       /\ streams[s].kind = "resume"
       /\ streams[s].listening
       /\ streams[s].queue # <<>>
       /\ streams[s].id \in activeRequestIds

\* A cancellation reaches stream s in this step: its abort signal fires, or
\* its consumer cancels it while chunks are left to read.
cancelReaches(s) ==
  \/ streams[s].signal = "armed" /\ streams'[s].signal = "aborted"
  \/ /\ streams[s].state = "readable"
     /\ streams'[s].state = "closed"
     /\ streams'[s].seen = streams[s].seen

\* C24: a cancellation that reaches a stream which has finished (by done,
\* by error or by an earlier cancel) transmits nothing, leaves the active
\* set alone, and does not change what the consumer is told: the stored
\* error stays and a terminal state stays.
C24_CancelAfterFinishIsNoOp ==
  [][\A s \in DOMAIN streams :
       (streams[s].completed /\ cancelReaches(s)) =>
         /\ sent' = sent
         /\ activeRequestIds' = activeRequestIds
         /\ streams'[s].completed
         /\ streams'[s].actionRuns = streams[s].actionRuns
         /\ streams'[s].storedError = streams[s].storedError
         /\ streams[s].state # "readable" =>
              streams'[s].state = streams[s].state
         /\ outcome(streams'[s]) \in {outcome(streams[s]), "close"}]_vars

\* The abort signal of a request fired after its done frame had closed the
\* stream: no CANCEL frame is on the wire and the consumer still sees close.
C24_Witness ==
  \E s \in DOMAIN streams :
    /\ streams[s].kind = "send"
    /\ streams[s].returned
    /\ streams[s].wireEnd = "done"
    /\ streams[s].signal = "aborted"
    /\ outcome(streams[s]) = "close"
    /\ cancelCount(sent, streams[s].id) = 0

\* C26: a cancellation of an unfinished request whose CANCEL frame the
\* connection did not accept still finishes the stream, takes its
\* identifier out of the active set and shows the consumer the abort
\* outcome.
C26_CancelFailureStillAborts ==
  [][\A s \in DOMAIN streams :
       (/\ streams[s].kind = "send"
        /\ ~streams[s].completed
        /\ ~streams[s].cancelAsked
        /\ streams'[s].cancelAsked
        /\ cancelCount(sent', streams[s].id) = cancelCount(sent, streams[s].id))
       => (/\ streams'[s].completed
           /\ streams[s].id \notin activeRequestIds'
           /\ outcome(streams'[s]) = "abort")]_vars

\* C27: a resolved resume call stays as it is: no timer and no hand-off
\* resolves it again or changes its result; a call is resolved once and
\* its timer is off from then on.
C27_ResolvesAtMostOnce ==
  [][\A r \in DOMAIN resumes :
       /\ resumes[r].resolved => resumes'[r] = resumes[r]
       /\ resumes'[r].resolved =>
            (resumes'[r].resolves = 1 /\ ~resumes'[r].timer)
       /\ ~resumes'[r].resolved => resumes'[r].resolves = 0]_vars

\* The first call was resolved with a stream that has since finished, the
\* second timed out, and a hand-off after both returned false.
C27_Witness ==
  /\ Len(resumes) = 2
  /\ resumes[1].resolved /\ resumes[1].stream # 0 /\ resumes[1].resolves = 1
  /\ streams[resumes[1].stream].completed
  /\ resumes[2].resolved /\ resumes[2].stream = 0
  /\ lastOp = [op |-> "handleStreamResuming", ret |-> "false"]

\* SEND_REQUEST frames sent for stream s.
requestsOf(s) ==
  {k \in DOMAIN sent[streams[s].agent] :
     /\ sent[streams[s].agent][k].type = CF_AGENT_USE_CHAT_REQUEST
     /\ sent[streams[s].agent][k].id = streams[s].id}

\* C25: every sendMessages call that returned its stream has put exactly
\* one SEND_REQUEST frame with its identifier, one no other send has, on its
\* connection, and the body of that frame holds the trigger and the messages
\* the caller passed.
C25_PayloadCarriesCallerTrigger ==
  \A s \in DOMAIN streams :
    (streams[s].kind = "send" /\ streams[s].returned) =>
      /\ Cardinality(requestsOf(s)) = 1
      /\ \A i \in DOMAIN streams :
           (i # s /\ streams[i].kind = "send") => streams[i].id # streams[s].id
      /\ \A k \in requestsOf(s) :
           /\ sent[streams[s].agent][k].body.trigger = streams[s].trigger
           /\ sent[streams[s].agent][k].body.messages = "options"

\* C28: every reconnectToStream call is eventually resolved, once, with null
\* or with a resume stream, given that its timer fires unless cleared.
resolvedWith(r) ==
  /\ resumes[r].resolved
  /\ resumes[r].resolves = 1
  /\ \/ resumes[r].stream = 0
     \/ /\ resumes[r].stream \in DOMAIN streams
        /\ streams[resumes[r].stream].kind = "resume"
C28_ResumeEventuallyResolves ==
  \A r \in 1..MaxCalls : (Len(resumes) >= r) ~> (Len(resumes) >= r /\ resolvedWith(r))
\* A call whose RESUME_REQUEST failed, that was superseded by a later call
\* and whose connection was replaced, resolved with null.
C28_Witness ==
  /\ Len(resumes) = 2
  /\ resolvedWith(1)
  /\ resumes[1].stream = 0
  /\ agent # resumes[1].agentAtCall
  /\ \A k \in DOMAIN sent[resumes[1].agentAtCall] :
       sent[resumes[1].agentAtCall][k].type # CF_AGENT_STREAM_RESUME_REQUEST

\* Identifiers of the streams a caller holds that have not finished.
liveIds == {streams[s].id : s \in {i \in DOMAIN streams :
                                    streams[i].returned /\ ~streams[i].completed}}

\* C31: the active set holds exactly the identifiers of the streams a caller
\* holds that have not finished.
C31_ActiveSetIsLiveStreams == activeRequestIds = liveIds

\* C32: on every connection a CANCEL frame for an identifier comes after the
\* SEND_REQUEST frame for it, so no SEND_REQUEST follows the cancellation
\* that finished its stream.
C32_CancelAfterRequest ==
  \A a \in Agents : \A k \in DOMAIN sent[a] :
    sent[a][k].type = CF_AGENT_CHAT_REQUEST_CANCEL =>
      \E j \in 1..(k - 1) :
        /\ sent[a][j].type = CF_AGENT_USE_CHAT_REQUEST
        /\ sent[a][j].id = sent[a][k].id

\* C33: a hand-off that returns true has, in that one step, marked the
\* identifier active, put RESUME_ACK on the current connection, emptied the
\* pending slot and resolved the call with a stream whose listener is
\* attached; every chunk a later frame carries to an unfinished resumed
\* stream is queued on it in that delivery.
C33_HandoffIsAtomic ==
  [][/\ (isHandoff /\ lastOp'.ret = "true") =>
          (/\ resumeResolver # 0
           /\ resumeResolver' = 0
           /\ Len(streams') = Len(streams) + 1
           /\ LET st == streams'[Len(streams')]
              IN /\ st.kind = "resume"
                 /\ st.listening /\ ~st.completed /\ st.returned
                 /\ st.agent = agent
                 /\ st.id \in activeRequestIds'
                 /\ sent'[agent] = Append(sent[agent],
                                          [type |-> CF_AGENT_STREAM_RESUME_ACK,
                                           id |-> st.id])
                 /\ resumes'[resumeResolver].resolved
                 /\ resumes'[resumeResolver].stream = Len(streams'))
     /\ \A s \in DOMAIN streams :
          (/\ streams[s].kind = "resume"
           /\ Len(streams'[s].expected) = Len(streams[s].expected) + 1) =>
            streams'[s].queue =
              Append(streams[s].queue,
                     streams'[s].expected[Len(streams'[s].expected)])]_vars
\* A resumed stream read the chunk of a frame that came after its hand-off.
C33_Witness ==
  \E s \in DOMAIN streams :
    /\ streams[s].kind = "resume"
    /\ streams[s].seen # <<>>
    /\ streams[s].seen = streams[s].expected
    /\ \E r \in DOMAIN resumes : resumes[r].resolved /\ resumes[r].stream = s
    /\ ackCount(sent) = 1

\* C34: persisting the list of the call before again leaves the store as
\* that call left it, deletes nothing and keeps every row the first call
\* kept.
C34_PersistTwiceIsPersistOnce ==
  lastPersist.n = 2 =>
    /\ store = lastPersist.server
    /\ lastPersist.deleted = {}

\* C35: every stream a caller holds finishes, and its identifier has then
\* left the active set or belongs to another unfinished stream, given that
\* the server ends every response on the connection that is current.
C35_StreamFinishesAcrossSwap ==
  \A s \in 1..MaxCalls :
    (s \in DOMAIN streams /\ streams[s].returned)
      ~> (/\ s \in DOMAIN streams
          /\ streams[s].completed
          /\ \/ streams[s].id \notin activeRequestIds
             \/ streams[s].id \in liveIds)

\* C36: a response frame without error that carries no chunk leaves the
\* chunks of its stream alone and its done flag decides: the frame that ends the routed
\* frames with done=true and no chunk finishes the stream with a close,
\* at once or after the queued chunks, and takes its identifier out of the
\* active set; a delivered response frame that neither carries a chunk to a
\* stream nor ends its frames leaves that stream as it was.
C36_ChunklessFrameHonoursDone ==
  [][isDispatch =>
       \A s \in DOMAIN streams :
         LET st == streams[s]
             st1 == streams'[s]
         IN (st1.expected = st.expected /\ st1.wireEnd # "error") =>
              /\ st1.queue = st.queue
              /\ st1.seen = st.seen
              /\ (st.wireEnd = "" /\ st1.wireEnd = "done") =>
                   /\ st1.completed
                   /\ st1.actionRuns = 1
                   /\ st1.storedError = NoError
                   /\ IF st.queue = <<>>
                      THEN st1.state = "closed"
                      ELSE st1.state = "readable" /\ st1.closeRequested
                   /\ st1.id \notin activeRequestIds'
              /\ st1.wireEnd = st.wireEnd => st1 = st]_vars
\* A send stream and a resumed stream, each ended by a done frame that
\* carried no chunk: one closed with nothing read, the other after its
\* consumer read the chunk an earlier frame carried.
C36_Witness ==
  \E s, t \in DOMAIN streams :
    /\ streams[s].kind = "send"
    /\ streams[t].kind = "resume"
    /\ streams[s].wireEnd = "done" /\ streams[t].wireEnd = "done"
    /\ streams[s].expected = <<>>
    /\ outcome(streams[s]) = "close"
    /\ Len(streams[t].expected) = 1
    /\ streams[t].seen = streams[t].expected
    /\ outcome(streams[t]) = "close"
    /\ activeRequestIds = {}

====
